---- MODULE Spec2Model ----
\* CollabFlow backend: the Express route handlers of projects, boards, tasks,
\* comments and notifications over the Mongoose collections, and the Socket.IO
\* handlers of server.js, as one state machine.  A step is one HTTP request
\* handled to completion (lookup, authorization, writes, response), one await
\* of an in-flight PUT /tasks/:id, or one socket event.
EXTENDS Integers, Sequences, FiniteSets, TLC

VARIABLES
    projects,       \* Project collection: id -> document
    boards,         \* Board collection: id -> document
    tasks,          \* Task collection: id -> document
    comments,       \* Comment collection: id -> document
    notifications,  \* Notification collection: id -> document
    nextId,         \* per collection, the number of ObjectIds handed out so far
    pre,            \* the five collections as they were when the last request arrived
    resp,           \* the last request and the response it was answered with
    requests,       \* the PUT /tasks/:id requests that are handled await by await
    saved,          \* those of `requests` whose task.save() has run, in that order
    sockets,        \* Socket.IO: per socket its state, its rooms and what was emitted to it
    published       \* the task-updated and comment-added events handled so far

vars == <<projects, boards, tasks, comments, notifications, nextId, pre, resp,
          requests, saved, sockets, published>>

-----------------------------------------------------------------------------
\* Bounds of the model.

MaxProjects == 2
MaxBoards == 1
MaxTasks == 1
MaxComments == 2
MaxNotifications == 2
\* the most fields one PUT body supplies in the update specification
MaxSupplied == 1
\* the PUT /tasks/:id requests in flight at once
MaxRequests == 2
MaxSockets == 3
\* the events published over the sockets
MaxEvents == 1

-----------------------------------------------------------------------------
\* JavaScript values.  Strings stand for themselves; undefined and null are the
\* two tokens below (no request in the model uses them as text).

Undef == "undefined"
Null == "null"

\* ToBoolean: undefined, null and the empty string are falsy.
Truthy(v) == v \notin {Undef, Null, ""}

\* `a || b`
Or(a, b) == IF Truthy(a) THEN a ELSE b

\* `a !== undefined ? a : b`
IfDefined(a, b) == IF a # Undef THEN a ELSE b

Users == {"u1", "u2", "u3"}

\* The ObjectIds a collection hands out, in order; never reused.
ObjectId(prefix, n) == prefix \o ToString(n)
ProjectIds == {ObjectId("p", n) : n \in 1..MaxProjects}
BoardIds == {ObjectId("b", n) : n \in 1..MaxBoards}
TaskIds == {ObjectId("t", n) : n \in 1..MaxTasks}
CommentIds == {ObjectId("c", n) : n \in 1..MaxComments}
NotificationIds == {ObjectId("n", n) : n \in 1..MaxNotifications}
\* socket.id of the sockets that connect, in order
SocketIds == {ObjectId("s", n) : n \in 1..MaxSockets}

\* ObjectId.prototype.toString(): the hex string of the id.
IdToString(id) == id

\* Document.prototype.toString() of a members subdocument: its inspection text.
MemberToString(m) == "{ user: " \o m.user \o ", role: '" \o m.role \o "' }"

\* The caller identity the auth middleware attaches to the request
\* (req.user.id in boards/tasks/comments/notifications, req.userId in projects).
ReqUserId(caller) == caller

\* MongooseArray.prototype.includes on project.members, an array of
\* { user, role } subdocuments, asked for a string: `obj == this[i]` coerces the
\* subdocument with toString().
MembersIncludes(members, str) ==
    \E i \in DOMAIN members : str = MemberToString(members[i])

\* `project.owner.toString() !== req.user.id && !project.members.includes(req.user.id)`
\* is the 403 condition; HasAccess is its negation.
HasAccess(project, caller) ==
    \/ IdToString(project.owner) = ReqUserId(caller)
    \/ MembersIncludes(project.members, ReqUserId(caller))

\* IsOwner with the membership test in place of the ownership test.
IsOwnerOrMember(project, caller) ==
    \/ project.owner = ReqUserId(caller)
    \/ \E i \in DOMAIN project.members : project.members[i].user = ReqUserId(caller)

\* `project.owner.toString() !== req.user.id` is the 403 condition of the deletes.
IsOwner(project, caller) == IdToString(project.owner) = ReqUserId(caller)

\* `comment.author.toString() !== req.user.id`
IsAuthor(comment, caller) == IdToString(comment.author) = ReqUserId(caller)

-----------------------------------------------------------------------------
\* The store.

Empty == [x \in {} |-> Undef]

Store == [projects |-> projects, boards |-> boards, tasks |-> tasks,
          comments |-> comments, notifications |-> notifications]

Put(coll, id, doc) == [x \in DOMAIN coll \cup {id} |-> IF x = id THEN doc ELSE coll[x]]

Remove(coll, id) == [x \in DOMAIN coll \ {id} |-> coll[x]]

\* Model.findById: whether a document with this id is in the collection.
Found(coll, id) == id \in DOMAIN coll

NoRequest == [op |-> "none", caller |-> Undef, id |-> Undef, body |-> Undef,
              status |-> 0, message |-> "", created |-> Undef, result |-> {},
              error |-> ""]

Request(op, caller, id, body) ==
    [op |-> op, caller |-> caller, id |-> id, body |-> body]

\* A request slot that no request has taken yet.
Idle == [pc |-> "idle", caller |-> Undef, id |-> Undef, body |-> Empty,
         task |-> Empty, status |-> 0]

\* A socket that has not connected yet.
NewSocket == [state |-> "new", rooms |-> {}, received |-> <<>>]

\* No request is in flight and no socket has connected.
Quiet ==
    /\ requests = [r \in 1..MaxRequests |-> Idle]
    /\ saved = <<>>
    /\ sockets = [s \in SocketIds |-> NewSocket]
    /\ published = <<>>

\* An HTTP request handled in one step: `pre` is the store it found; the
\* requests in flight and the sockets have no part in it.
Handled ==
    /\ pre' = Store
    /\ UNCHANGED <<requests, saved, sockets, published>>

\* `error` is what the handler's catch block logged, "" when nothing was thrown.
Response(req, status, message, created, result) ==
    [op |-> req.op, caller |-> req.caller, id |-> req.id, body |-> req.body,
     status |-> status, message |-> message, created |-> created, result |-> result,
     error |-> ""]

\* The catch block of every handler: console.error(..., error) and
\* res.status(500).json({ message: 'Server error' }).
Caught(req, error, created) ==
    [Response(req, 500, "Server error", created, {}) EXCEPT !.error = error]

\* res.status(code).json({ message })
Answer(req, status, message) ==
    /\ resp' = Response(req, status, message, Undef, {})
    /\ Handled

\* A request that is answered without writing to any collection.
ReadOnly(req, status, message) ==
    /\ Answer(req, status, message)
    /\ UNCHANGED <<projects, boards, tasks, comments, notifications, nextId>>

\* A handler that throws before it has written anything.
ServerError(req, error) ==
    /\ resp' = Caught(req, error, Undef)
    /\ Handled
    /\ UNCHANGED <<projects, boards, tasks, comments, notifications, nextId>>

Init ==
    /\ \E ms \in {<<[user |-> "u1", role |-> "owner"]>>,
                  <<[user |-> "u1", role |-> "owner"], [user |-> "u2", role |-> "member"]>>} :
           projects = Put(Empty, ObjectId("p", 1),
                          [name |-> "a", description |-> "a", owner |-> "u1",
                           members |-> ms, status |-> "active", tags |-> "a"])
    /\ boards = Empty
    /\ tasks = Empty
    /\ comments = Empty
    /\ notifications = Empty
    /\ nextId = [p |-> 1, b |-> 0, t |-> 0, c |-> 0, n |-> 0]
    /\ pre = [projects |-> projects, boards |-> boards, tasks |-> tasks,
              comments |-> comments, notifications |-> notifications]
    /\ resp = NoRequest
    /\ Quiet

-----------------------------------------------------------------------------
\* routes/projects.js

\* Project.find({ $or: [{ owner }, { 'members.user': userId }] })
ProjectsOf(caller) ==
    {p \in DOMAIN projects :
        \/ projects[p].owner = ReqUserId(caller)
        \/ \E i \in DOMAIN projects[p].members :
               projects[p].members[i].user = ReqUserId(caller)}

\* GET /api/projects
GetProjects(caller) ==
    LET req == Request("GET /projects", caller, Undef, Undef) IN
    /\ resp' = Response(req, 200, "", Undef, ProjectsOf(caller))
    /\ Handled
    /\ UNCHANGED <<projects, boards, tasks, comments, notifications, nextId>>

\* NewProject with the creator entered as an ordinary member.
NewProjectAsMember(caller, body) ==
    [name |-> body.name, description |-> body.description,
     owner |-> ReqUserId(caller),
     members |-> <<[user |-> ReqUserId(caller), role |-> "member"]>>,
     status |-> "active", tags |-> body.tags]

\* new Project({ name, description, owner, members: [{ user, role: 'owner' }], tags })
NewProject(caller, body) ==
    [name |-> body.name, description |-> body.description,
     owner |-> ReqUserId(caller),
     members |-> <<[user |-> ReqUserId(caller), role |-> "owner"]>>,
     status |-> "active", tags |-> body.tags]

\* POST /api/projects
PostProject(caller, body) ==
    LET req == Request("POST /projects", caller, Undef, body)
        id == ObjectId("p", nextId.p + 1) IN
    /\ nextId.p < MaxProjects
    /\ projects' = Put(projects, id, NewProject(caller, body))
    /\ nextId' = [nextId EXCEPT !.p = @ + 1]
    /\ resp' = Response(req, 201, "", id, {})
    /\ Handled
    /\ UNCHANGED <<boards, tasks, comments, notifications>>

\* GET /api/projects/:id
GetProject(caller, id) ==
    LET req == Request("GET /projects/:id", caller, id, Undef) IN
    IF ~Found(projects, id)
    THEN ReadOnly(req, 404, "Project not found")
    ELSE /\ resp' = Response(req, 200, "", Undef, {id})
         /\ Handled
         /\ UNCHANGED <<projects, boards, tasks, comments, notifications, nextId>>

\* The filter { _id: req.params.id, owner: req.userId } of findOneAndUpdate and
\* findOneAndDelete: whether one project matches it.
MatchesOwned(id, caller) ==
    /\ Found(projects, id)
    /\ projects[id].owner = ReqUserId(caller)

\* ApplyProjectUpdate as a replacement of the whole document by the update
\* document: owner and members are not in it.
ApplyProjectUpdateReplacing(project, body) ==
    [project EXCEPT !.name = body.name, !.description = body.description,
                    !.status = body.status, !.tags = body.tags,
                    !.owner = Undef, !.members = <<>>]

\* The update document { name, description, status, tags }: a key whose value is
\* undefined is dropped from the update, every other key is set.
ApplyProjectUpdate(project, body) ==
    [project EXCEPT !.name = IfDefined(body.name, @),
                    !.description = IfDefined(body.description, @),
                    !.status = IfDefined(body.status, @),
                    !.tags = IfDefined(body.tags, @)]

\* PUT /api/projects/:id
PutProject(caller, id, body) ==
    LET req == Request("PUT /projects/:id", caller, id, body) IN
    IF ~MatchesOwned(id, caller)
    THEN ReadOnly(req, 404, "Project not found or unauthorized")
    ELSE /\ projects' = [projects EXCEPT ![id] = ApplyProjectUpdate(@, body)]
         /\ resp' = Response(req, 200, "", Undef, {})
         /\ Handled
         /\ UNCHANGED <<boards, tasks, comments, notifications, nextId>>

\* DeleteProject that also deletes the boards and tasks of the project.
DeleteProjectCascading(caller, id) ==
    LET req == Request("DELETE /projects/:id", caller, id, Undef) IN
    IF ~MatchesOwned(id, caller)
    THEN ReadOnly(req, 404, "Project not found or unauthorized")
    ELSE /\ projects' = Remove(projects, id)
         /\ boards' = [b \in {x \in DOMAIN boards : boards[x].project # id} |-> boards[b]]
         /\ tasks' = [t \in {x \in DOMAIN tasks : tasks[x].project # id} |-> tasks[t]]
         /\ resp' = Response(req, 200, "Project deleted", Undef, {})
         /\ Handled
         /\ UNCHANGED <<comments, notifications, nextId>>

\* DELETE /api/projects/:id
DeleteProject(caller, id) ==
    LET req == Request("DELETE /projects/:id", caller, id, Undef) IN
    IF ~MatchesOwned(id, caller)
    THEN ReadOnly(req, 404, "Project not found or unauthorized")
    ELSE /\ projects' = Remove(projects, id)
         /\ resp' = Response(req, 200, "Project deleted", Undef, {})
         /\ Handled
         /\ UNCHANGED <<boards, tasks, comments, notifications, nextId>>

-----------------------------------------------------------------------------
\* routes/boards.js

\* new Board({ name, description, project: projectId, createdBy }): createdBy is
\* no path of boardSchema and is not stored.
NewBoard(body) ==
    [name |-> body.name, description |-> body.description, project |-> body.projectId]

\* POST /api/boards
PostBoard(caller, body) ==
    LET req == Request("POST /boards", caller, Undef, body)
        id == ObjectId("b", nextId.b + 1) IN
    IF ~Found(projects, body.projectId)
    THEN ReadOnly(req, 404, "Project not found")
    ELSE IF ~HasAccess(projects[body.projectId], caller)
    THEN ReadOnly(req, 403, "Not authorized")
    ELSE /\ nextId.b < MaxBoards
         /\ boards' = Put(boards, id, NewBoard(body))
         /\ nextId' = [nextId EXCEPT !.b = @ + 1]
         /\ resp' = Response(req, 201, "", id, {})
         /\ Handled
         /\ UNCHANGED <<projects, tasks, comments, notifications>>

\* GET /api/boards/project/:projectId.  populate('createdBy') names a path that
\* boardSchema does not have: with strictPopulate (Mongoose 6 and later) populating
\* a found board throws, without it the path is skipped.
GetBoardsByProject(caller, projectId, strictPopulate) ==
    LET req == Request("GET /boards/project/:projectId", caller, projectId, Undef)
        found == {b \in DOMAIN boards : boards[b].project = projectId} IN
    IF ~Found(projects, projectId)
    THEN ReadOnly(req, 404, "Project not found")
    ELSE IF ~HasAccess(projects[projectId], caller)
    THEN ReadOnly(req, 403, "Not authorized")
    ELSE IF strictPopulate /\ found # {}
    THEN ServerError(req, "StrictPopulateError")
    ELSE /\ resp' = Response(req, 200, "", Undef, found)
         /\ Handled
         /\ UNCHANGED <<projects, boards, tasks, comments, notifications, nextId>>

\* GET /api/boards/:id.  board.project is populated: null when the project is
\* gone, and `project.owner` then throws.
GetBoard(caller, id, strictPopulate) ==
    LET req == Request("GET /boards/:id", caller, id, Undef) IN
    IF ~Found(boards, id)
    THEN ReadOnly(req, 404, "Board not found")
    ELSE IF strictPopulate
    THEN ServerError(req, "StrictPopulateError")
    ELSE IF ~Found(projects, boards[id].project)
    THEN ServerError(req, "TypeError")
    ELSE IF ~HasAccess(projects[boards[id].project], caller)
    THEN ReadOnly(req, 403, "Not authorized")
    ELSE /\ resp' = Response(req, 200, "", Undef, {id})
         /\ Handled
         /\ UNCHANGED <<projects, boards, tasks, comments, notifications, nextId>>

\* board.name = name || board.name; board.description = description || board.description
ApplyBoardUpdate(board, body) ==
    [board EXCEPT !.name = Or(body.name, @),
                  !.description = Or(body.description, @)]

\* PUT /api/boards/:id
PutBoard(caller, id, body) ==
    LET req == Request("PUT /boards/:id", caller, id, body) IN
    IF ~Found(boards, id)
    THEN ReadOnly(req, 404, "Board not found")
    ELSE IF ~Found(projects, boards[id].project)
    THEN ServerError(req, "TypeError")
    ELSE IF ~HasAccess(projects[boards[id].project], caller)
    THEN ReadOnly(req, 403, "Not authorized")
    ELSE /\ boards' = [boards EXCEPT ![id] = ApplyBoardUpdate(@, body)]
         /\ resp' = Response(req, 200, "", Undef, {})
         /\ Handled
         /\ UNCHANGED <<projects, tasks, comments, notifications, nextId>>

\* DELETE /api/boards/:id
DeleteBoard(caller, id) ==
    LET req == Request("DELETE /boards/:id", caller, id, Undef) IN
    IF ~Found(boards, id)
    THEN ReadOnly(req, 404, "Board not found")
    ELSE IF ~Found(projects, boards[id].project)
    THEN ServerError(req, "TypeError")
    ELSE IF ~IsOwner(projects[boards[id].project], caller)
    THEN ReadOnly(req, 403, "Only project owner can delete boards")
    ELSE /\ boards' = Remove(boards, id)
         /\ resp' = Response(req, 200, "Board deleted successfully", Undef, {})
         /\ Handled
         /\ UNCHANGED <<projects, tasks, comments, notifications, nextId>>

-----------------------------------------------------------------------------
\* Notifications, created as a side effect in routes/tasks.js and routes/comments.js

\* new Notification({ user, type, message, relatedTask, relatedProject });
\* `read` starts false.
NewNotification(user, type, message, taskId, projectId) ==
    [user |-> user, type |-> type, message |-> message,
     relatedTask |-> taskId, relatedProject |-> projectId, read |-> FALSE]

\* notification.save() that succeeds: the collection with the new document.
SaveNotification(doc) ==
    Put(notifications, ObjectId("n", nextId.n + 1), doc)

-----------------------------------------------------------------------------
\* routes/tasks.js

\* new Task({ title, description, priority, status, dueDate, board: boardId,
\*            project: projectId, createdBy: req.user.id, assignedTo })
NewTask(caller, body) ==
    [title |-> body.title, description |-> body.description,
     priority |-> body.priority, status |-> body.status, dueDate |-> body.dueDate,
     board |-> body.boardId, project |-> body.projectId,
     createdBy |-> ReqUserId(caller), assignedTo |-> body.assignedTo]

\* TaskNotifies without the comparison with the caller.
TaskNotifiesAnyone(assignedTo, caller) == Truthy(assignedTo)

\* `assignedTo && assignedTo.toString() !== req.user.id`
TaskNotifies(assignedTo, caller) ==
    /\ Truthy(assignedTo)
    /\ IdToString(assignedTo) # ReqUserId(caller)

\* PostTaskCheck with the board resolved before the caller is authorized.
PostTaskCheckBoardFirst(caller, body) ==
    IF ~Found(projects, body.projectId) THEN <<404, "Project not found">>
    ELSE IF Truthy(body.boardId) /\ ~Found(boards, body.boardId)
    THEN <<404, "Board not found">>
    ELSE IF ~HasAccess(projects[body.projectId], caller) THEN <<403, "Not authorized">>
    ELSE <<0, "">>

\* The checks of POST /api/tasks in the order the handler makes them: the status
\* and message it returns with, <<0, "">> when it goes on to create the task.
PostTaskCheck(caller, body) ==
    IF ~Found(projects, body.projectId) THEN <<404, "Project not found">>
    ELSE IF ~HasAccess(projects[body.projectId], caller) THEN <<403, "Not authorized">>
    ELSE IF Truthy(body.boardId) /\ ~Found(boards, body.boardId)
    THEN <<404, "Board not found">>
    ELSE <<0, "">>

\* POST /api/tasks.  notifyFails: whether notification.save() rejects.
PostTask(caller, body, notifyFails) ==
    LET req == Request("POST /tasks", caller, Undef, body)
        id == ObjectId("t", nextId.t + 1)
        check == PostTaskCheck(caller, body)
        notify == TaskNotifies(body.assignedTo, caller) IN
    IF check[1] # 0
    THEN ReadOnly(req, check[1], check[2])
    ELSE /\ nextId.t < MaxTasks
         /\ notify => nextId.n < MaxNotifications
         /\ tasks' = Put(tasks, id, NewTask(caller, body))
         /\ Handled
         /\ UNCHANGED <<projects, boards, comments>>
         /\ IF notify /\ notifyFails
            THEN /\ resp' = Caught(req, "notification.save", id)
                 /\ nextId' = [nextId EXCEPT !.t = @ + 1]
                 /\ UNCHANGED notifications
            ELSE IF notify
            THEN /\ notifications' = SaveNotification(
                        NewNotification(body.assignedTo, "task_assigned",
                            "You have been assigned to task: " \o body.title,
                            id, body.projectId))
                 /\ nextId' = [nextId EXCEPT !.t = @ + 1, !.n = @ + 1]
                 /\ resp' = Response(req, 201, "", id, {})
            ELSE /\ nextId' = [nextId EXCEPT !.t = @ + 1]
                 /\ resp' = Response(req, 201, "", id, {})
                 /\ UNCHANGED notifications

\* GET /api/tasks/project/:projectId
GetTasksByProject(caller, projectId) ==
    LET req == Request("GET /tasks/project/:projectId", caller, projectId, Undef) IN
    IF ~Found(projects, projectId)
    THEN ReadOnly(req, 404, "Project not found")
    ELSE IF ~HasAccess(projects[projectId], caller)
    THEN ReadOnly(req, 403, "Not authorized")
    ELSE /\ resp' = Response(req, 200, "", Undef,
                             {t \in DOMAIN tasks : tasks[t].project = projectId})
         /\ Handled
         /\ UNCHANGED <<projects, boards, tasks, comments, notifications, nextId>>

\* GET /api/tasks/board/:boardId
GetTasksByBoard(caller, boardId) ==
    LET req == Request("GET /tasks/board/:boardId", caller, boardId, Undef) IN
    IF ~Found(boards, boardId)
    THEN ReadOnly(req, 404, "Board not found")
    ELSE IF ~Found(projects, boards[boardId].project)
    THEN ServerError(req, "TypeError")
    ELSE IF ~HasAccess(projects[boards[boardId].project], caller)
    THEN ReadOnly(req, 403, "Not authorized")
    ELSE /\ resp' = Response(req, 200, "", Undef,
                             {t \in DOMAIN tasks : tasks[t].board = boardId})
         /\ Handled
         /\ UNCHANGED <<projects, boards, tasks, comments, notifications, nextId>>

\* GET /api/tasks/:id
GetTask(caller, id) ==
    LET req == Request("GET /tasks/:id", caller, id, Undef) IN
    IF ~Found(tasks, id)
    THEN ReadOnly(req, 404, "Task not found")
    ELSE IF ~Found(projects, tasks[id].project)
    THEN ServerError(req, "TypeError")
    ELSE IF ~HasAccess(projects[tasks[id].project], caller)
    THEN ReadOnly(req, 403, "Not authorized")
    ELSE /\ resp' = Response(req, 200, "", Undef, {id})
         /\ Handled
         /\ UNCHANGED <<projects, boards, tasks, comments, notifications, nextId>>

\* Reassigned without the comparison with the task's assignee.
ReassignedWhenAssigned(assignedTo, task) ==
    /\ Truthy(assignedTo)
    /\ Truthy(task.assignedTo)

\* `assignedTo && task.assignedTo &&
\*  assignedTo.toString() !== task.assignedTo.toString()`
Reassigned(assignedTo, task) ==
    /\ Truthy(assignedTo)
    /\ Truthy(task.assignedTo)
    /\ IdToString(assignedTo) # IdToString(task.assignedTo)

\* ApplyTaskUpdate that assigns description and dueDate whether supplied or not.
ApplyTaskUpdateUnguarded(task, body) ==
    [task EXCEPT !.title = Or(body.title, @),
                 !.description = body.description,
                 !.priority = Or(body.priority, @),
                 !.status = Or(body.status, @),
                 !.dueDate = body.dueDate,
                 !.assignedTo = IfDefined(body.assignedTo, @)]

\* task.title = title || task.title; ... ;
\* task.assignedTo = assignedTo !== undefined ? assignedTo : task.assignedTo
ApplyTaskUpdate(task, body) ==
    [task EXCEPT !.title = Or(body.title, @),
                 !.description = IfDefined(body.description, @),
                 !.priority = Or(body.priority, @),
                 !.status = Or(body.status, @),
                 !.dueDate = IfDefined(body.dueDate, @),
                 !.assignedTo = IfDefined(body.assignedTo, @)]

\* PUT /api/tasks/:id.  The notification is saved before the task is.
PutTask(caller, id, body, notifyFails) ==
    LET req == Request("PUT /tasks/:id", caller, id, body) IN
    IF ~Found(tasks, id)
    THEN ReadOnly(req, 404, "Task not found")
    ELSE IF ~Found(projects, tasks[id].project)
    THEN ServerError(req, "TypeError")
    ELSE IF ~HasAccess(projects[tasks[id].project], caller)
    THEN ReadOnly(req, 403, "Not authorized")
    ELSE LET notify == Reassigned(body.assignedTo, tasks[id]) IN
         /\ notify => nextId.n < MaxNotifications
         /\ IF notify /\ notifyFails
            THEN ServerError(req, "notification.save")
            ELSE /\ tasks' = [tasks EXCEPT ![id] = ApplyTaskUpdate(@, body)]
                 /\ resp' = Response(req, 200, "", Undef, {})
                 /\ Handled
                 /\ UNCHANGED <<projects, boards, comments>>
                 /\ IF notify
                    THEN /\ notifications' = SaveNotification(
                                NewNotification(body.assignedTo, "task_assigned",
                                    "You have been assigned to task: " \o tasks[id].title,
                                    id, tasks[id].project))
                         /\ nextId' = [nextId EXCEPT !.n = @ + 1]
                    ELSE UNCHANGED <<notifications, nextId>>

\* DELETE /api/tasks/:id
DeleteTask(caller, id) ==
    LET req == Request("DELETE /tasks/:id", caller, id, Undef) IN
    IF ~Found(tasks, id)
    THEN ReadOnly(req, 404, "Task not found")
    ELSE IF ~Found(projects, tasks[id].project)
    THEN ServerError(req, "TypeError")
    ELSE IF ~IsOwner(projects[tasks[id].project], caller)
    THEN ReadOnly(req, 403, "Only project owner can delete tasks")
    ELSE /\ tasks' = Remove(tasks, id)
         /\ resp' = Response(req, 200, "Task deleted successfully", Undef, {})
         /\ Handled
         /\ UNCHANGED <<projects, boards, comments, notifications, nextId>>

-----------------------------------------------------------------------------
\* routes/comments.js

\* CommentNotifies that skips an assignee who already has a comment notification.
CommentNotifiesOnce(task, caller) ==
    /\ Truthy(task.assignedTo)
    /\ IdToString(task.assignedTo) # ReqUserId(caller)
    /\ ~\E n \in DOMAIN notifications :
           /\ notifications[n].user = task.assignedTo
           /\ notifications[n].type = "comment_added"

\* `task.assignedTo && task.assignedTo.toString() !== req.user.id`
CommentNotifies(task, caller) ==
    /\ Truthy(task.assignedTo)
    /\ IdToString(task.assignedTo) # ReqUserId(caller)

\* new Comment({ content, task: taskId, author: req.user.id })
NewComment(caller, body) ==
    [content |-> body.content, task |-> body.taskId, author |-> ReqUserId(caller)]

\* POST /api/comments.  notifyFails: whether notification.save() rejects.
PostComment(caller, body, notifyFails) ==
    LET req == Request("POST /comments", caller, Undef, body)
        id == ObjectId("c", nextId.c + 1) IN
    IF ~Found(tasks, body.taskId)
    THEN ReadOnly(req, 404, "Task not found")
    ELSE IF ~Found(projects, tasks[body.taskId].project)
    THEN ServerError(req, "TypeError")
    ELSE IF ~HasAccess(projects[tasks[body.taskId].project], caller)
    THEN ReadOnly(req, 403, "Not authorized")
    ELSE LET task == tasks[body.taskId]
             notify == CommentNotifies(task, caller) IN
         /\ nextId.c < MaxComments
         /\ notify => nextId.n < MaxNotifications
         /\ comments' = Put(comments, id, NewComment(caller, body))
         /\ Handled
         /\ UNCHANGED <<projects, boards, tasks>>
         /\ IF notify /\ notifyFails
            THEN /\ resp' = Caught(req, "notification.save", id)
                 /\ nextId' = [nextId EXCEPT !.c = @ + 1]
                 /\ UNCHANGED notifications
            ELSE IF notify
            THEN /\ notifications' = SaveNotification(
                        NewNotification(task.assignedTo, "comment_added",
                            "New comment on task: " \o task.title,
                            body.taskId, task.project))
                 /\ nextId' = [nextId EXCEPT !.c = @ + 1, !.n = @ + 1]
                 /\ resp' = Response(req, 201, "", id, {})
            ELSE /\ nextId' = [nextId EXCEPT !.c = @ + 1]
                 /\ resp' = Response(req, 201, "", id, {})
                 /\ UNCHANGED notifications

\* GET /api/comments/task/:taskId
GetCommentsByTask(caller, taskId) ==
    LET req == Request("GET /comments/task/:taskId", caller, taskId, Undef) IN
    IF ~Found(tasks, taskId)
    THEN ReadOnly(req, 404, "Task not found")
    ELSE IF ~Found(projects, tasks[taskId].project)
    THEN ServerError(req, "TypeError")
    ELSE IF ~HasAccess(projects[tasks[taskId].project], caller)
    THEN ReadOnly(req, 403, "Not authorized")
    ELSE /\ resp' = Response(req, 200, "", Undef,
                             {c \in DOMAIN comments : comments[c].task = taskId})
         /\ Handled
         /\ UNCHANGED <<projects, boards, tasks, comments, notifications, nextId>>

\* comment.task.project of a comment populated with task and task.project:
\* reading it throws when the task is gone (comment.task is null).
TaskResolves(comment) == Found(tasks, comment.task)

\* Whether comment.task.project is a project document (not null).
ProjectResolves(comment) ==
    /\ TaskResolves(comment)
    /\ Found(projects, tasks[comment.task].project)

\* GET /api/comments/:id
GetComment(caller, id) ==
    LET req == Request("GET /comments/:id", caller, id, Undef) IN
    IF ~Found(comments, id)
    THEN ReadOnly(req, 404, "Comment not found")
    ELSE IF ~ProjectResolves(comments[id])
    THEN ServerError(req, "TypeError")
    ELSE IF ~HasAccess(projects[tasks[comments[id].task].project], caller)
    THEN ReadOnly(req, 403, "Not authorized")
    ELSE /\ resp' = Response(req, 200, "", Undef, {id})
         /\ Handled
         /\ UNCHANGED <<projects, boards, tasks, comments, notifications, nextId>>

\* comment.content = content || comment.content
ApplyCommentUpdate(comment, body) ==
    [comment EXCEPT !.content = Or(body.content, @)]

\* PUT /api/comments/:id: only the author is checked, comment.task is not read.
PutComment(caller, id, body) ==
    LET req == Request("PUT /comments/:id", caller, id, body) IN
    IF ~Found(comments, id)
    THEN ReadOnly(req, 404, "Comment not found")
    ELSE IF ~IsAuthor(comments[id], caller)
    THEN ReadOnly(req, 403, "Only comment author can update it")
    ELSE /\ comments' = [comments EXCEPT ![id] = ApplyCommentUpdate(@, body)]
         /\ resp' = Response(req, 200, "", Undef, {})
         /\ Handled
         /\ UNCHANGED <<projects, boards, tasks, notifications, nextId>>

\* `comment.author.toString() !== req.user.id &&
\*  project.owner.toString() !== req.user.id` is the 403 condition; project is
\* read only when the caller is not the author.
MayDeleteComment(comment, caller) ==
    \/ IsAuthor(comment, caller)
    \/ IsOwner(projects[tasks[comment.task].project], caller)

\* DELETE /api/comments/:id
DeleteComment(caller, id) ==
    LET req == Request("DELETE /comments/:id", caller, id, Undef) IN
    IF ~Found(comments, id)
    THEN ReadOnly(req, 404, "Comment not found")
    ELSE IF ~TaskResolves(comments[id])
    THEN ServerError(req, "TypeError")
    ELSE IF ~IsAuthor(comments[id], caller) /\ ~ProjectResolves(comments[id])
    THEN ServerError(req, "TypeError")
    ELSE IF ~MayDeleteComment(comments[id], caller)
    THEN ReadOnly(req, 403, "Not authorized to delete this comment")
    ELSE /\ comments' = Remove(comments, id)
         /\ resp' = Response(req, 200, "Comment deleted successfully", Undef, {})
         /\ Handled
         /\ UNCHANGED <<projects, boards, tasks, notifications, nextId>>

-----------------------------------------------------------------------------
\* routes/notifications.js

\* .limit(50)
NotificationLimit == 50

\* The position of a socket in the order of connection.
CreatedAtSocket(id) == CHOOSE k \in 1..MaxSockets : ObjectId("s", k) = id

\* The position of a Notification in creation order (createdAt).
CreatedAt(id) == CHOOSE k \in 1..MaxNotifications : ObjectId("n", k) = id

\* Notification.find({ user: req.user.id })
NotificationsOf(caller) ==
    {n \in DOMAIN notifications : notifications[n].user = ReqUserId(caller)}

\* Notification.find({ user: req.user.id, read: false })
UnreadOf(caller) == {n \in NotificationsOf(caller) : ~notifications[n].read}

\* .sort({ createdAt: -1 }).limit(k): the k most recently created of `found`.
MostRecent(found, k) ==
    {n \in found : Cardinality({m \in found : CreatedAt(m) > CreatedAt(n)}) < k}

\* `notification.user.toString() !== req.user.id` is the 403 condition.
IsRecipient(notification, caller) == IdToString(notification.user) = ReqUserId(caller)

\* A request answered 200 with the documents `found`, writing nothing.
Found200(req, found) ==
    /\ resp' = Response(req, 200, "", Undef, found)
    /\ Handled
    /\ UNCHANGED <<projects, boards, tasks, comments, notifications, nextId>>

\* A request that writes the Notification collection only.
WriteNotifications(req, message, after) ==
    /\ notifications' = after
    /\ resp' = Response(req, 200, message, Undef, {})
    /\ Handled
    /\ UNCHANGED <<projects, boards, tasks, comments, nextId>>

\* GET /api/notifications
GetNotifications(caller) ==
    Found200(Request("GET /notifications", caller, Undef, Undef),
             MostRecent(NotificationsOf(caller), NotificationLimit))

\* GET /api/notifications/unread
GetUnread(caller) ==
    Found200(Request("GET /notifications/unread", caller, Undef, Undef), UnreadOf(caller))

\* GET /api/notifications/count: res.json({ count })
GetCount(caller) ==
    Found200(Request("GET /notifications/count", caller, Undef, Undef),
             {ToString(Cardinality(UnreadOf(caller)))})

\* GET /api/notifications/:id
GetNotification(caller, id) ==
    LET req == Request("GET /notifications/:id", caller, id, Undef) IN
    IF ~Found(notifications, id)
    THEN ReadOnly(req, 404, "Notification not found")
    ELSE IF ~IsRecipient(notifications[id], caller)
    THEN ReadOnly(req, 403, "Not authorized")
    ELSE Found200(req, {id})

\* PUT /api/notifications/:id/read
MarkRead(caller, id) ==
    LET req == Request("PUT /notifications/:id/read", caller, id, Undef) IN
    IF ~Found(notifications, id)
    THEN ReadOnly(req, 404, "Notification not found")
    ELSE IF ~IsRecipient(notifications[id], caller)
    THEN ReadOnly(req, 403, "Not authorized")
    ELSE WriteNotifications(req, "", [notifications EXCEPT ![id].read = TRUE])

\* MarkAllRead as an upsert: with no unread Notification of the caller it
\* inserts one from the filter and the update.
MarkAllReadUpsert(caller) ==
    LET req == Request("PUT /notifications/read-all", caller, Undef, Undef) IN
    /\ nextId.n < MaxNotifications
    /\ UnreadOf(caller) = {}
    /\ notifications' = SaveNotification(
            [NewNotification(ReqUserId(caller), Undef, Undef, Undef, Undef)
                EXCEPT !.read = TRUE])
    /\ nextId' = [nextId EXCEPT !.n = @ + 1]
    /\ resp' = Response(req, 200, "All notifications marked as read", Undef, {})
    /\ Handled
    /\ UNCHANGED <<projects, boards, tasks, comments>>

\* PUT /api/notifications/read-all:
\* Notification.updateMany({ user: req.user.id, read: false }, { read: true })
MarkAllRead(caller) ==
    WriteNotifications(Request("PUT /notifications/read-all", caller, Undef, Undef),
        "All notifications marked as read",
        [n \in DOMAIN notifications |->
            IF n \in UnreadOf(caller)
            THEN [notifications[n] EXCEPT !.read = TRUE] ELSE notifications[n]])

\* DeleteNotification that deletes the document before it compares the
\* recipient with the caller.
DeleteNotificationThenVerify(caller, id) ==
    LET req == Request("DELETE /notifications/:id", caller, id, Undef) IN
    IF ~Found(notifications, id)
    THEN ReadOnly(req, 404, "Notification not found")
    ELSE IF ~IsRecipient(notifications[id], caller)
    THEN /\ notifications' = Remove(notifications, id)
         /\ resp' = Response(req, 403, "Not authorized", Undef, {})
         /\ Handled
         /\ UNCHANGED <<projects, boards, tasks, comments, nextId>>
    ELSE WriteNotifications(req, "Notification deleted successfully",
                            Remove(notifications, id))

\* DELETE /api/notifications/:id
DeleteNotification(caller, id) ==
    LET req == Request("DELETE /notifications/:id", caller, id, Undef) IN
    IF ~Found(notifications, id)
    THEN ReadOnly(req, 404, "Notification not found")
    ELSE IF ~IsRecipient(notifications[id], caller)
    THEN ReadOnly(req, 403, "Not authorized")
    ELSE WriteNotifications(req, "Notification deleted successfully",
                            Remove(notifications, id))

\* DeleteAllNotifications with an empty filter.
DeleteEveryNotification(caller) ==
    WriteNotifications(Request("DELETE /notifications", caller, Undef, Undef),
        "All notifications deleted successfully", Empty)

\* DELETE /api/notifications: Notification.deleteMany({ user: req.user.id })
DeleteAllNotifications(caller) ==
    WriteNotifications(Request("DELETE /notifications", caller, Undef, Undef),
        "All notifications deleted successfully",
        [n \in DOMAIN notifications \ NotificationsOf(caller) |-> notifications[n]])

-----------------------------------------------------------------------------
\* The requests of the model.

ProjectFields == {"name", "description", "status", "tags"}
BoardFields == {"name", "description"}
TaskFields == {"title", "description", "priority", "status", "dueDate", "assignedTo"}
CommentFields == {"content"}

\* A body that supplies no field.
NoFields(fields) == [f \in fields |-> Undef]

\* The bodies over `fields` that supply at most k of them, each with a value of
\* values[f].
RECURSIVE Patches(_, _, _)
Patches(fields, values, k) ==
    IF k = 0 THEN {NoFields(fields)}
    ELSE LET fewer == Patches(fields, values, k - 1) IN
         fewer \cup {[p EXCEPT ![f] = v] : <<p, f, v>> \in
                        {<<p, f, v>> \in fewer \X fields \X UNION {values[f] : f \in fields} :
                            v \in values[f]}}

ProjectBodies == {[name |-> "a", description |-> "a", tags |-> "a"]}

BoardBodies == {[name |-> "a", description |-> "a", projectId |-> p] : p \in ProjectIds}

\* POST /tasks bodies, with the assignees of `assignees`.
TaskBodies(assignees) ==
    {[title |-> "a", description |-> "a", priority |-> "a", status |-> "a",
      dueDate |-> "a", boardId |-> b, projectId |-> p, assignedTo |-> u] :
        b \in BoardIds \cup {Undef}, p \in ProjectIds, u \in assignees}

CommentBodies == {[content |-> "a", taskId |-> t] : t \in TaskIds}

\* A PUT body over all of `fields` from a partial one: what it leaves out is undefined.
Body(fields, p) == [f \in fields |-> IF f \in DOMAIN p THEN p[f] ELSE Undef]

-----------------------------------------------------------------------------
\* Spec: the board, task and comment routes over a store that starts with one
\* project (with or without a second member); its owner may delete it.  Tasks are
\* created unassigned and PUT bodies supply at most a new name, title or content.

NamePatches == {Body(ProjectFields, p) : p \in Patches({"name"}, [f \in {"name"} |-> {"b"}], 1)}
BoardPatches == {Body(BoardFields, p) : p \in Patches({"name"}, [f \in {"name"} |-> {"b"}], 1)}
TitlePatches == {Body(TaskFields, p) : p \in Patches({"title"}, [f \in {"title"} |-> {"b"}], 1)}
CommentPatches == Patches(CommentFields, [f \in CommentFields |-> {"b"}], 1)

DoDeleteProject == \E c \in Users, id \in ProjectIds : DeleteProject(c, id)

DoPostBoard == \E c \in Users, body \in BoardBodies : PostBoard(c, body)
DoGetBoardsByProject ==
    \E c \in Users, id \in ProjectIds, strict \in BOOLEAN : GetBoardsByProject(c, id, strict)
DoGetBoard == \E c \in Users, id \in BoardIds, strict \in BOOLEAN : GetBoard(c, id, strict)
DoPutBoard == \E c \in Users, id \in BoardIds, body \in BoardPatches : PutBoard(c, id, body)
DoDeleteBoard == \E c \in Users, id \in BoardIds : DeleteBoard(c, id)

DoPostTask == \E c \in Users, body \in TaskBodies({Undef}) : PostTask(c, body, FALSE)
DoGetTasksByProject == \E c \in Users, id \in ProjectIds : GetTasksByProject(c, id)
DoGetTasksByBoard == \E c \in Users, id \in BoardIds : GetTasksByBoard(c, id)
DoGetTask == \E c \in Users, id \in TaskIds : GetTask(c, id)
DoPutTask == \E c \in Users, id \in TaskIds, body \in TitlePatches : PutTask(c, id, body, FALSE)
DoDeleteTask == \E c \in Users, id \in TaskIds : DeleteTask(c, id)

DoPostComment == \E c \in Users, body \in CommentBodies : PostComment(c, body, FALSE)
DoGetCommentsByTask == \E c \in Users, id \in TaskIds : GetCommentsByTask(c, id)
DoGetComment == \E c \in Users, id \in CommentIds : GetComment(c, id)
DoPutComment == \E c \in Users, id \in CommentIds, body \in CommentPatches : PutComment(c, id, body)
DoDeleteComment == \E c \in Users, id \in CommentIds : DeleteComment(c, id)

Next ==
    \/ DoDeleteProject
    \/ DoPostBoard \/ DoGetBoardsByProject \/ DoGetBoard \/ DoPutBoard \/ DoDeleteBoard
    \/ DoPostTask \/ DoGetTasksByProject \/ DoGetTasksByBoard \/ DoGetTask
    \/ DoPutTask \/ DoDeleteTask
    \/ DoPostComment \/ DoGetCommentsByTask \/ DoGetComment \/ DoPutComment
    \/ DoDeleteComment

Spec == Init /\ [][Next]_vars

-----------------------------------------------------------------------------
\* SpecProjects: the project routes alone, any caller creating projects.

ProjectPatches == Patches(ProjectFields, [f \in ProjectFields |-> {"b"}], MaxSupplied)

ProjGetProjects == \E c \in Users : GetProjects(c)
ProjPostProject == \E c \in Users, body \in ProjectBodies : PostProject(c, body)
ProjGetProject == \E c \in Users, id \in ProjectIds : GetProject(c, id)
ProjPutProject ==
    \E c \in Users, id \in ProjectIds, body \in ProjectPatches : PutProject(c, id, body)
ProjDeleteProject == \E c \in Users, id \in ProjectIds : DeleteProject(c, id)

NextProjects ==
    \/ ProjGetProjects \/ ProjPostProject \/ ProjGetProject \/ ProjPutProject
    \/ ProjDeleteProject

SpecProjects == Init /\ [][NextProjects]_vars

-----------------------------------------------------------------------------
\* SpecNotify: creating, reassigning and commenting on tasks, with any assignee
\* and with notification.save() succeeding or rejecting.

AssignPatches ==
    {Body(TaskFields, p) :
        p \in Patches({"assignedTo"}, [f \in {"assignedTo"} |-> Users \cup {Null}], 1)}

NotifyPostTask ==
    \E c \in Users, body \in TaskBodies(Users \cup {Undef}), fails \in BOOLEAN :
        PostTask(c, body, fails)
NotifyPutTask ==
    \E c \in Users, id \in TaskIds, body \in AssignPatches, fails \in BOOLEAN :
        PutTask(c, id, body, fails)
NotifyPostComment ==
    \E c \in Users, body \in CommentBodies, fails \in BOOLEAN : PostComment(c, body, fails)

NextNotify == NotifyPostTask \/ NotifyPutTask \/ NotifyPostComment

SpecNotify == Init /\ [][NextNotify]_vars

-----------------------------------------------------------------------------
\* SpecPatch: the four PUT routes with bodies that supply up to MaxSupplied
\* fields, as a new value or as the empty string (assignedTo: a user or null).
\* It starts from a store with one project, or with the project and a board,
\* or with those and a task its creator assigned to themselves, or with those and
\* a comment on the task; each route is exercised on the start that ends with
\* its entity.

PatchValues == {"b", ""}

PatchedProjects == Patches(ProjectFields, [f \in ProjectFields |-> PatchValues], MaxSupplied)
PatchedBoards == Patches(BoardFields, [f \in BoardFields |-> PatchValues], MaxSupplied)
PatchedTasks ==
    Patches(TaskFields,
            [f \in TaskFields |-> IF f = "assignedTo" THEN {"u2", Null} ELSE PatchValues],
            MaxSupplied)
PatchedComments == Patches(CommentFields, [f \in CommentFields |-> PatchValues], MaxSupplied)

SeedProject ==
    [name |-> "a", description |-> "a", owner |-> "u1",
     members |-> <<[user |-> "u1", role |-> "owner"]>>, status |-> "active", tags |-> "a"]
SeedBoard == NewBoard([name |-> "a", description |-> "a", projectId |-> "p1"])
SeedTask ==
    NewTask("u1", [title |-> "a", description |-> "a", priority |-> "a", status |-> "a",
                   dueDate |-> "a", boardId |-> "b1", projectId |-> "p1",
                   assignedTo |-> "u1"])
SeedComment == NewComment("u1", [content |-> "a", taskId |-> "t1"])

InitPatch ==
    /\ projects = Put(Empty, "p1", SeedProject)
    /\ \E depth \in 0..3 :
           /\ boards = IF depth >= 1 THEN Put(Empty, "b1", SeedBoard) ELSE Empty
           /\ tasks = IF depth >= 2 THEN Put(Empty, "t1", SeedTask) ELSE Empty
           /\ comments = IF depth >= 3 THEN Put(Empty, "c1", SeedComment) ELSE Empty
           /\ nextId = [p |-> 1, b |-> IF depth >= 1 THEN 1 ELSE 0,
                        t |-> IF depth >= 2 THEN 1 ELSE 0,
                        c |-> IF depth >= 3 THEN 1 ELSE 0, n |-> 0]
    /\ notifications = Empty
    /\ pre = [projects |-> projects, boards |-> boards, tasks |-> tasks,
              comments |-> comments, notifications |-> notifications]
    /\ resp = NoRequest
    /\ Quiet

PatchPutProject ==
    /\ boards = Empty
    /\ \E c \in Users, id \in ProjectIds, body \in PatchedProjects : PutProject(c, id, body)
PatchPutBoard ==
    /\ tasks = Empty
    /\ \E c \in Users, id \in BoardIds, body \in PatchedBoards : PutBoard(c, id, body)
PatchPutTask ==
    /\ comments = Empty
    /\ \E c \in Users, id \in TaskIds, body \in PatchedTasks : PutTask(c, id, body, FALSE)
PatchPutComment ==
    \E c \in Users, id \in CommentIds, body \in PatchedComments : PutComment(c, id, body)

NextPatch == PatchPutProject \/ PatchPutBoard \/ PatchPutTask \/ PatchPutComment

SpecPatch == InitPatch /\ [][NextPatch]_vars

-----------------------------------------------------------------------------
\* PUT /api/tasks/:id handled await by await (routes/tasks.js): the handler
\* yields at findById, at notification.save(), at task.save() and at the final
\* findById, and other requests run in between.

\* The paths of the in-memory document that save() writes: Document.set marks a
\* path modified only when the value assigned differs from the one loaded, and
\* save() sends a $set of the modified paths.
ModifiedPaths(loaded, assigned) == {f \in TaskFields : assigned[f] # loaded[f]}

\* `await Task.findById(req.params.id).populate('project')` and the checks on
\* its result.
FindTask(r, caller, id, body) ==
    LET req == [Idle EXCEPT !.caller = caller, !.id = id, !.body = body]
        done(status) == [req EXCEPT !.pc = "done", !.status = status] IN
    /\ requests[r].pc = "idle"
    /\ \A q \in 1..(r - 1) : requests[q].pc # "idle"
    /\ requests' = [requests EXCEPT ![r] =
           IF ~Found(tasks, id) THEN done(404)
           ELSE IF ~Found(projects, tasks[id].project) THEN done(500)
           ELSE IF ~HasAccess(projects[tasks[id].project], caller) THEN done(403)
           ELSE [req EXCEPT !.task = tasks[id],
                            !.pc = IF Reassigned(body.assignedTo, tasks[id])
                                   THEN "notify" ELSE "save"]]
    /\ UNCHANGED <<projects, boards, tasks, comments, notifications, nextId, pre, resp,
                   saved, sockets, published>>

\* `await notification.save()` of a request that reassigns the task it loaded.
NotifyReassigned(r) ==
    LET req == requests[r] IN
    /\ req.pc = "notify"
    /\ nextId.n < MaxNotifications
    /\ notifications' = SaveNotification(
            NewNotification(req.body.assignedTo, "task_assigned",
                "You have been assigned to task: " \o req.task.title,
                req.id, req.task.project))
    /\ nextId' = [nextId EXCEPT !.n = @ + 1]
    /\ requests' = [requests EXCEPT ![r].pc = "save"]
    /\ UNCHANGED <<projects, boards, tasks, comments, pre, resp, saved, sockets, published>>

\* The six assignments to the loaded document and `await task.save()`.
SaveTask(r) ==
    LET req == requests[r]
        assigned == ApplyTaskUpdate(req.task, req.body)
        modified == ModifiedPaths(req.task, assigned) IN
    /\ req.pc = "save"
    /\ saved' = Append(saved, r)
    /\ IF modified = {}
       THEN /\ requests' = [requests EXCEPT ![r].pc = "respond"]
            /\ UNCHANGED tasks
       ELSE IF ~Found(tasks, req.id)
       THEN /\ requests' = [requests EXCEPT ![r].pc = "done", ![r].status = 500]
            /\ UNCHANGED tasks
       ELSE /\ requests' = [requests EXCEPT ![r].pc = "respond"]
            /\ tasks' = [tasks EXCEPT ![req.id] =
                   [f \in DOMAIN @ |-> IF f \in modified THEN assigned[f] ELSE @[f]]]
    /\ UNCHANGED <<projects, boards, comments, notifications, nextId, pre, resp,
                   sockets, published>>

\* `await Task.findById(task._id).populate(...)` and res.json(updatedTask).
SendUpdated(r) ==
    /\ requests[r].pc = "respond"
    /\ requests' = [requests EXCEPT ![r].pc = "done", ![r].status = 200]
    /\ UNCHANGED <<projects, boards, tasks, comments, notifications, nextId, pre, resp,
                   saved, sockets, published>>

\* SpecRace: MaxRequests PUT /tasks/:id requests, any caller, each supplying up
\* to MaxSupplied fields with the stored value or a new one, over the store
\* with one project, one board and one task.

RaceBodies ==
    Patches(TaskFields,
            [f \in TaskFields |-> IF f = "assignedTo" THEN {"u1", "u2"} ELSE {"a", "b", ""}],
            MaxSupplied)

InitRace ==
    /\ projects = Put(Empty, "p1", SeedProject)
    /\ boards = Put(Empty, "b1", SeedBoard)
    /\ tasks = Put(Empty, "t1", SeedTask)
    /\ comments = Empty
    /\ notifications = Empty
    /\ nextId = [p |-> 1, b |-> 1, t |-> 1, c |-> 0, n |-> 0]
    /\ pre = [projects |-> projects, boards |-> boards, tasks |-> tasks,
              comments |-> comments, notifications |-> notifications]
    /\ resp = NoRequest
    /\ Quiet

RaceFindTask ==
    \E r \in 1..MaxRequests, c \in Users, id \in TaskIds, body \in RaceBodies :
        FindTask(r, c, id, body)
RaceNotifyReassigned == \E r \in 1..MaxRequests : NotifyReassigned(r)
RaceSaveTask == \E r \in 1..MaxRequests : SaveTask(r)
RaceSendUpdated == \E r \in 1..MaxRequests : SendUpdated(r)

NextRace == RaceFindTask \/ RaceNotifyReassigned \/ RaceSaveTask \/ RaceSendUpdated

SpecRace == InitRace /\ [][NextRace]_vars

-----------------------------------------------------------------------------
\* server.js: io.on('connection') and the socket handlers.

\* `project-${projectId}`
Room(projectId) == "project-" \o projectId

\* The sockets that are in a room: Socket.IO takes a socket out of its rooms
\* when it disconnects.
InRoom(room) == {x \in SocketIds : sockets[x].state = "open" /\ room \in sockets[x].rooms}

\* io.on('connection', (socket) => ...)
Connect(s) ==
    /\ sockets[s].state = "new"
    /\ \A x \in SocketIds : sockets[x].state = "new" => CreatedAtSocket(x) >= CreatedAtSocket(s)
    /\ sockets' = [sockets EXCEPT ![s].state = "open"]
    /\ UNCHANGED <<projects, boards, tasks, comments, notifications, nextId, pre, resp,
                   requests, saved, published>>

\* socket.on('join-project', (projectId) => socket.join(`project-${projectId}`))
JoinProject(s, projectId) ==
    /\ sockets[s].state = "open"
    /\ sockets' = [sockets EXCEPT ![s].rooms = @ \cup {Room(projectId)}]
    /\ UNCHANGED <<projects, boards, tasks, comments, notifications, nextId, pre, resp,
                   requests, saved, published>>

\* EmitTo as io.emit(event, data): to every connected socket.
EmitToAll(room, event, data) ==
    [x \in SocketIds |->
        IF sockets[x].state = "open"
        THEN [sockets[x] EXCEPT !.received = Append(@, [event |-> event, data |-> data])]
        ELSE sockets[x]]

\* io.to(room).emit(event, data): to every socket in the room.
EmitTo(room, event, data) ==
    [x \in SocketIds |->
        IF x \in InRoom(room)
        THEN [sockets[x] EXCEPT !.received = Append(@, [event |-> event, data |-> data])]
        ELSE sockets[x]]

\* A handler that rebroadcasts what socket s published as `name` under `event`.
Rebroadcast(s, name, event, data) ==
    /\ sockets[s].state = "open"
    /\ Len(published) < MaxEvents
    /\ sockets' = EmitTo(Room(data.projectId), event, data)
    /\ published' = Append(published,
           [socket |-> s, name |-> name, data |-> data,
            joined |-> InRoom(Room(data.projectId)),
            to |-> {x \in SocketIds : sockets'[x].received # sockets[x].received}])
    /\ UNCHANGED <<projects, boards, tasks, comments, notifications, nextId, pre, resp,
                   requests, saved>>

\* socket.on('task-updated', (data) => io.to(...).emit('task-update', data))
TaskUpdated(s, data) == Rebroadcast(s, "task-updated", "task-update", data)

\* socket.on('comment-added', (data) => io.to(...).emit('new-comment', data))
CommentAdded(s, data) == Rebroadcast(s, "comment-added", "new-comment", data)

\* socket.on('disconnect', ...)
Disconnect(s) ==
    /\ sockets[s].state = "open"
    /\ sockets' = [sockets EXCEPT ![s].state = "closed", ![s].rooms = {}]
    /\ UNCHANGED <<projects, boards, tasks, comments, notifications, nextId, pre, resp,
                   requests, saved, published>>

\* SpecSockets: up to MaxSockets sockets connect, join the topics of any project
\* id, publish up to MaxEvents events and disconnect.

Payloads == {[projectId |-> p, text |-> "x"] : p \in ProjectIds}

\* The server as it starts on an empty database.
InitSockets ==
    /\ projects = Empty /\ boards = Empty /\ tasks = Empty
    /\ comments = Empty /\ notifications = Empty
    /\ nextId = [p |-> 0, b |-> 0, t |-> 0, c |-> 0, n |-> 0]
    /\ pre = [projects |-> projects, boards |-> boards, tasks |-> tasks,
              comments |-> comments, notifications |-> notifications]
    /\ resp = NoRequest
    /\ Quiet

SockConnect == \E s \in SocketIds : Connect(s)
SockJoinProject == \E s \in SocketIds, p \in ProjectIds : JoinProject(s, p)
SockTaskUpdated == \E s \in SocketIds, data \in Payloads : TaskUpdated(s, data)
SockCommentAdded == \E s \in SocketIds, data \in Payloads : CommentAdded(s, data)
SockDisconnect == \E s \in SocketIds : Disconnect(s)

NextSockets ==
    \/ SockConnect \/ SockJoinProject \/ SockTaskUpdated \/ SockCommentAdded
    \/ SockDisconnect

SpecSockets == InitSockets /\ [][NextSockets]_vars

-----------------------------------------------------------------------------
\* SpecRefs: boards and tasks created in, and boards deleted from, a store with
\* two projects of the same owner.

InitRefs ==
    /\ projects = Put(Put(Empty, "p1", SeedProject), "p2", SeedProject)
    /\ boards = Empty
    /\ tasks = Empty
    /\ comments = Empty
    /\ notifications = Empty
    /\ nextId = [p |-> 2, b |-> 0, t |-> 0, c |-> 0, n |-> 0]
    /\ pre = [projects |-> projects, boards |-> boards, tasks |-> tasks,
              comments |-> comments, notifications |-> notifications]
    /\ resp = NoRequest
    /\ Quiet

RefsPostBoard == \E c \in Users, body \in BoardBodies : PostBoard(c, body)
RefsPostTask == \E c \in Users, body \in TaskBodies({Undef}) : PostTask(c, body, FALSE)
RefsDeleteBoard == \E c \in Users, id \in BoardIds : DeleteBoard(c, id)

NextRefs == RefsPostBoard \/ RefsPostTask \/ RefsDeleteBoard

SpecRefs == InitRefs /\ [][NextRefs]_vars

-----------------------------------------------------------------------------
\* SpecInbox: the notification routes, any caller, over the Notifications that
\* the owner's tasks assigned to u2 or u3, their reassignment and comments on
\* them create.

ReassignPatches ==
    {Body(TaskFields, p) :
        p \in Patches({"assignedTo"}, [f \in {"assignedTo"} |-> {"u2", "u3"}], 1)}

InboxPostTask == \E c \in Users, body \in TaskBodies({"u2", "u3"}) : PostTask(c, body, FALSE)
InboxPutTask ==
    \E c \in Users, id \in TaskIds, body \in ReassignPatches : PutTask(c, id, body, FALSE)
InboxPostComment == \E c \in Users, body \in CommentBodies : PostComment(c, body, FALSE)
InboxGetNotifications == \E c \in Users : GetNotifications(c)
InboxGetUnread == \E c \in Users : GetUnread(c)
InboxGetCount == \E c \in Users : GetCount(c)
InboxGetNotification == \E c \in Users, id \in NotificationIds : GetNotification(c, id)
InboxMarkRead == \E c \in Users, id \in NotificationIds : MarkRead(c, id)
InboxMarkAllRead == \E c \in Users : MarkAllRead(c)
InboxDeleteNotification == \E c \in Users, id \in NotificationIds : DeleteNotification(c, id)
InboxDeleteAllNotifications == \E c \in Users : DeleteAllNotifications(c)

NextInbox ==
    \/ InboxPostTask \/ InboxPutTask \/ InboxPostComment
    \/ InboxGetNotifications \/ InboxGetUnread \/ InboxGetCount \/ InboxGetNotification
    \/ InboxMarkRead \/ InboxMarkAllRead
    \/ InboxDeleteNotification \/ InboxDeleteAllNotifications

SpecInbox == Init /\ [][NextInbox]_vars

-----------------------------------------------------------------------------
\* Properties.  Each is about the last request: `resp` is the request and its
\* answer, `pre` the store it found, the collections the store it left.

BoardPathOps == {"GET /boards/:id", "PUT /boards/:id", "DELETE /boards/:id",
                 "GET /tasks/board/:boardId"}
TaskPathOps == {"GET /tasks/:id", "PUT /tasks/:id", "DELETE /tasks/:id",
                "GET /comments/task/:taskId"}
CommentPathOps == {"GET /comments/:id", "PUT /comments/:id", "DELETE /comments/:id"}
ProjectPathOps == {"GET /boards/project/:projectId", "GET /tasks/project/:projectId"}

\* The project of a task of the store the request found, Undef when there is no such task.
ProjectOfTask(taskId) ==
    IF Found(pre.tasks, taskId) THEN pre.tasks[taskId].project ELSE Undef

\* The id of the project that owns what the last request addressed, in the store
\* the request found; Undef when the chain of references breaks.
ReqProjectId ==
    IF resp.op \in {"POST /boards", "POST /tasks"} THEN resp.body.projectId
    ELSE IF resp.op \in ProjectPathOps THEN resp.id
    ELSE IF resp.op \in BoardPathOps
    THEN (IF Found(pre.boards, resp.id) THEN pre.boards[resp.id].project ELSE Undef)
    ELSE IF resp.op \in TaskPathOps THEN ProjectOfTask(resp.id)
    ELSE IF resp.op = "POST /comments" THEN ProjectOfTask(resp.body.taskId)
    ELSE IF resp.op \in CommentPathOps
    THEN (IF Found(pre.comments, resp.id)
          THEN ProjectOfTask(pre.comments[resp.id].task) ELSE Undef)
    ELSE Undef

\* The caller is the owner of project P or the user of one of its members entries.
Listed(P, caller) ==
    \/ P.owner = caller
    \/ \E i \in DOMAIN P.members : P.members[i].user = caller

\* That the last request left every collection as it found it.
StoreUnchanged == Store = pre

\* C1: a request that reads or modifies a sub-resource of an existing project P
\* passes authorization iff the caller is P's owner or the user of an entry of
\* P.members; every other caller is answered 403.
C1Ops == {"POST /boards", "GET /boards/project/:projectId", "GET /boards/:id",
          "PUT /boards/:id", "POST /tasks", "GET /tasks/project/:projectId",
          "GET /tasks/board/:boardId", "GET /tasks/:id", "PUT /tasks/:id",
          "POST /comments", "GET /comments/task/:taskId", "GET /comments/:id"}

C1_OwnerAndMembersPass ==
    (resp.op \in C1Ops /\ Found(pre.projects, ReqProjectId)) =>
        (resp.status # 403 <=> Listed(pre.projects[ReqProjectId], resp.caller))

\* C2: DELETE /tasks/:id and DELETE /boards/:id of an existing task or board
\* succeed iff the caller owns the owning project; a member who is not the owner
\* is answered 403 with the owner-only message and the document stays.
DeletedFrom(before, after, id) ==
    /\ DOMAIN after = DOMAIN before \ {id}
    /\ \A x \in DOMAIN after : after[x] = before[x]

OwnerOnlyDelete(before, after, what) ==
    Found(before, resp.id) =>
        LET pid == before[resp.id].project
            owns == Found(pre.projects, pid) /\ pre.projects[pid].owner = resp.caller IN
        /\ resp.status = 200 <=> owns
        /\ resp.status = 200 => DeletedFrom(before, after, resp.id)
        /\ (Found(pre.projects, pid) /\ ~owns /\ Listed(pre.projects[pid], resp.caller)) =>
               /\ resp.status = 403
               /\ resp.message = "Only project owner can delete " \o what
               /\ after = before

C2_OnlyOwnerDeletes ==
    /\ resp.op = "DELETE /tasks/:id" => OwnerOnlyDelete(pre.tasks, tasks, "tasks")
    /\ resp.op = "DELETE /boards/:id" => OwnerOnlyDelete(pre.boards, boards, "boards")

C2_Witness ==
    /\ resp.op = "DELETE /tasks/:id"
    /\ Found(pre.tasks, resp.id)
    /\ Found(pre.projects, pre.tasks[resp.id].project)
    /\ resp.caller # pre.projects[pre.tasks[resp.id].project].owner
    /\ Listed(pre.projects[pre.tasks[resp.id].project], resp.caller)
    /\ resp.status = 403
    /\ Found(tasks, resp.id)

\* C3: PUT /comments/:id of an existing comment succeeds iff the caller is its
\* author, DELETE /comments/:id iff the caller is its author or the owner of the
\* project of its task; every other caller is answered 403 and the comment is
\* unchanged.
OwnsProjectOfComment(comment, caller) ==
    /\ Found(pre.projects, ProjectOfTask(comment.task))
    /\ pre.projects[ProjectOfTask(comment.task)].owner = caller

C3_CommentAuthorOrOwner ==
    (resp.op \in {"PUT /comments/:id", "DELETE /comments/:id"}
     /\ Found(pre.comments, resp.id)) =>
        LET comment == pre.comments[resp.id]
            allowed == \/ comment.author = resp.caller
                       \/ /\ resp.op = "DELETE /comments/:id"
                          /\ OwnsProjectOfComment(comment, resp.caller) IN
        IF allowed THEN resp.status = 200
        ELSE resp.status = 403 /\ comments = pre.comments

\* C4 as stated: whenever an entity the request names by identifier (the path id,
\* projectId, taskId, boardId) does not exist, the answer is 404, whoever calls.
NamedMissing ==
    \/ resp.op \in ProjectPathOps /\ ~Found(pre.projects, resp.id)
    \/ resp.op \in BoardPathOps /\ ~Found(pre.boards, resp.id)
    \/ resp.op \in TaskPathOps /\ ~Found(pre.tasks, resp.id)
    \/ resp.op \in CommentPathOps /\ ~Found(pre.comments, resp.id)
    \/ resp.op \in {"POST /boards", "POST /tasks"} /\ ~Found(pre.projects, resp.body.projectId)
    \/ resp.op = "POST /comments" /\ ~Found(pre.tasks, resp.body.taskId)

BoardMissing ==
    /\ resp.op = "POST /tasks"
    /\ Found(pre.projects, resp.body.projectId)
    /\ Truthy(resp.body.boardId)
    /\ ~Found(pre.boards, resp.body.boardId)

C4_NotFoundFirst == (NamedMissing \/ BoardMissing) => resp.status = 404

\* C4 as amended: a missing path id, projectId or taskId is answered 404 whoever
\* calls; the boardId of POST /tasks is resolved after authorization, so with an
\* existing project and a missing board the project's owner is answered 404 and
\* a caller who is neither its owner nor a member 403.
C4_NotFoundFirstExceptBoard ==
    /\ NamedMissing => resp.status = 404
    /\ BoardMissing =>
           LET P == pre.projects[resp.body.projectId] IN
           /\ resp.status \in {403, 404}
           /\ P.owner = resp.caller => resp.status = 404
           /\ ~Listed(P, resp.caller) => resp.status = 403

C4_Witness ==
    /\ BoardMissing
    /\ ~Listed(pre.projects[resp.body.projectId], resp.caller)
    /\ resp.status = 403

\* C5: PUT or DELETE /projects/:id of an existing project by a caller who is not
\* its owner is answered 403; 404 is answered only when no such project exists.
C5_NonOwnerForbidden ==
    resp.op \in {"PUT /projects/:id", "DELETE /projects/:id"} =>
        /\ (Found(pre.projects, resp.id) /\ pre.projects[resp.id].owner # resp.caller)
               => resp.status = 403
        /\ resp.status = 404 => ~Found(pre.projects, resp.id)

\* The Notifications the last request added.
Added == DOMAIN notifications \ DOMAIN pre.notifications

\* Every Notification the request found is still there, as it was.
OldNotificationsKept ==
    \A n \in DOMAIN pre.notifications :
        Found(notifications, n) /\ notifications[n] = pre.notifications[n]

\* The last request added exactly one Notification, for `user`, of type `type`.
AddedOne(user, type) ==
    /\ Cardinality(Added) = 1
    /\ \A n \in Added : notifications[n].user = user /\ notifications[n].type = type
    /\ OldNotificationsKept

AddedNone == notifications = pre.notifications

\* C6: a PUT /tasks/:id that succeeds adds exactly one task_assigned Notification
\* for the supplied assignedTo iff that value differs from the caller and from
\* the task's previous assignee (none counts as different), and none otherwise.
C6_NotifyOnReassign ==
    (resp.op = "PUT /tasks/:id" /\ resp.status = 200) =>
        LET a == resp.body.assignedTo
            previous == pre.tasks[resp.id].assignedTo IN
        IF Truthy(a) /\ a # resp.caller /\ a # previous
        THEN AddedOne(a, "task_assigned")
        ELSE AddedNone

\* C7: a POST /tasks that succeeds stores the task with the assignedTo of the
\* body and adds exactly one task_assigned Notification for it when it names a
\* user other than the caller, none when it is absent or the caller; the
\* project's owner posting without a board is answered 201 in both cases.
C7_NotifyOnCreate ==
    resp.op = "POST /tasks" =>
        LET a == resp.body.assignedTo IN
        /\ resp.status = 201 =>
               /\ Found(tasks, resp.created) /\ ~Found(pre.tasks, resp.created)
               /\ tasks[resp.created].assignedTo = a
               /\ IF Truthy(a) /\ a # resp.caller
                  THEN AddedOne(a, "task_assigned")
                  ELSE AddedNone
        /\ (/\ Found(pre.projects, resp.body.projectId)
            /\ pre.projects[resp.body.projectId].owner = resp.caller
            /\ resp.body.boardId = Undef
            /\ resp.error = "") => resp.status = 201

C7_Witness ==
    /\ resp.op = "POST /tasks"
    /\ resp.status = 201
    /\ resp.caller = "u1"
    /\ resp.body.assignedTo = "u2"
    /\ AddedOne("u2", "task_assigned")
    /\ tasks[resp.created].assignedTo = "u2"

\* C8: a POST /comments that succeeds adds exactly one comment_added
\* Notification for the task's assignee when there is one and it is not the
\* author, whatever Notifications exist already, and none otherwise.
C8_NotifyOnComment ==
    (resp.op = "POST /comments" /\ resp.status = 201) =>
        LET a == pre.tasks[resp.body.taskId].assignedTo IN
        /\ Found(comments, resp.created)
        /\ comments[resp.created].author = resp.caller
        /\ IF Truthy(a) /\ a # resp.caller
           THEN AddedOne(a, "comment_added")
           ELSE AddedNone

\* the second comment on a task assigned to someone else: two Notifications
C8_Witness ==
    /\ resp.op = "POST /comments"
    /\ resp.status = 201
    /\ Cardinality(Added) = 1
    /\ \E n \in DOMAIN pre.notifications, m \in Added :
           /\ pre.notifications[n].type = "comment_added"
           /\ notifications[m].type = "comment_added"
           /\ notifications[m].user = pre.notifications[n].user
           /\ notifications[m].relatedTask = pre.notifications[n].relatedTask

\* C9: when notification.save() fails, the mutation that triggered it is in the
\* store all the same: the new task, the task's new assignee, the new comment.
C9_MutationSurvivesNotifyFailure ==
    resp.error = "notification.save" =>
        /\ resp.op = "POST /tasks" => Found(tasks, resp.created)
        /\ resp.op = "POST /comments" => Found(comments, resp.created)
        /\ resp.op = "PUT /tasks/:id" => tasks[resp.id].assignedTo = resp.body.assignedTo

\* C10: after a PUT that succeeds, every updatable field the body does not
\* supply has the value it had in the store before the request.
OmittedKept(before, after, fields) ==
    resp.status = 200 =>
        \A f \in fields :
            resp.body[f] = Undef => after[resp.id][f] = before[resp.id][f]

C10_OmittedFieldsKept ==
    /\ resp.op = "PUT /tasks/:id" => OmittedKept(pre.tasks, tasks, TaskFields)
    /\ resp.op = "PUT /boards/:id" => OmittedKept(pre.boards, boards, BoardFields)
    /\ resp.op = "PUT /comments/:id" => OmittedKept(pre.comments, comments, CommentFields)
    /\ resp.op = "PUT /projects/:id" => OmittedKept(pre.projects, projects, ProjectFields)

\* a task whose description was set earlier keeps it when only the title is supplied
C10_Witness ==
    /\ resp.op = "PUT /tasks/:id"
    /\ resp.status = 200
    /\ resp.body.title = "b"
    /\ resp.body.description = Undef
    /\ pre.tasks[resp.id].title = "a"
    /\ tasks[resp.id].title = "b"
    /\ tasks[resp.id].description = ""

\* C11: after a PUT /tasks/:id, PUT /boards/:id or PUT /comments/:id that
\* succeeds, every updatable field the body supplies, the empty string and null
\* included, holds the supplied value.
SuppliedWritten(after, fields) ==
    resp.status = 200 =>
        \A f \in fields :
            resp.body[f] # Undef => after[resp.id][f] = resp.body[f]

C11_SuppliedOverwrites ==
    /\ resp.op = "PUT /tasks/:id" => SuppliedWritten(tasks, TaskFields)
    /\ resp.op = "PUT /boards/:id" => SuppliedWritten(boards, BoardFields)
    /\ resp.op = "PUT /comments/:id" => SuppliedWritten(comments, CommentFields)

\* C12: a PUT that succeeded, sent again at once by the same caller with the
\* same id and body, succeeds again and leaves every collection, the
\* Notifications included, as the first one left it.
PutOps == {"PUT /projects/:id", "PUT /boards/:id", "PUT /tasks/:id", "PUT /comments/:id"}

SamePutAgain ==
    /\ resp.op \in PutOps
    /\ resp.status = 200
    /\ resp'.op = resp.op
    /\ resp'.caller = resp.caller
    /\ resp'.id = resp.id
    /\ resp'.body = resp.body

C12_PutTwiceIsPutOnce ==
    [][SamePutAgain =>
          /\ resp'.status = 200
          /\ projects' = projects /\ boards' = boards /\ tasks' = tasks
          /\ comments' = comments /\ notifications' = notifications]_vars

\* a reassignment that was notified, applied a second time: nothing is added
C12_Witness ==
    /\ resp.op = "PUT /tasks/:id"
    /\ resp.status = 200
    /\ resp.body.assignedTo = "u2"
    /\ pre.tasks[resp.id].assignedTo = "u2"
    /\ StoreUnchanged
    /\ \E n \in DOMAIN notifications :
           notifications[n].user = "u2" /\ notifications[n].type = "task_assigned"

\* C13: every stored project lists its owner in members with role 'owner', and
\* right after a POST /projects by caller A the new project has owner A and that
\* entry as its only member.
OwnerIsMember(P) ==
    \E i \in DOMAIN P.members :
        P.members[i].user = P.owner /\ P.members[i].role = "owner"

C13_OwnerIsMember ==
    /\ \A p \in DOMAIN projects : OwnerIsMember(projects[p])
    /\ (resp.op = "POST /projects" /\ resp.status = 201) =>
           /\ Found(projects, resp.created)
           /\ projects[resp.created].owner = resp.caller
           /\ projects[resp.created].members =
                  <<[user |-> resp.caller, role |-> "owner"]>>

C13_Witness ==
    /\ resp.op = "POST /projects"
    /\ resp.status = 201
    /\ resp.caller = "u2"
    /\ Found(projects, resp.created)
    /\ ~Found(pre.projects, resp.created)
    /\ projects[resp.created].owner = "u2"

NotificationOps ==
    {"GET /notifications", "GET /notifications/unread", "GET /notifications/count",
     "GET /notifications/:id", "PUT /notifications/:id/read",
     "PUT /notifications/read-all", "DELETE /notifications/:id", "DELETE /notifications"}

NotificationIdOps ==
    {"GET /notifications/:id", "PUT /notifications/:id/read", "DELETE /notifications/:id"}

\* C14: only POST /tasks, PUT /tasks/:id and POST /comments add a Notification,
\* every stored Notification is of type task_assigned or comment_added, and no
\* notifications route leaves a Notification in the store that it did not find.
C14_NotificationsAreSideEffects ==
    /\ Added # {} => resp.op \in {"POST /tasks", "PUT /tasks/:id", "POST /comments"}
    /\ \A n \in DOMAIN notifications :
           notifications[n].type \in {"task_assigned", "comment_added"}
    /\ resp.op \in NotificationOps =>
           DOMAIN notifications \subseteq DOMAIN pre.notifications

\* a recipient with nothing unread marks all as read: the store stays as it was
C14_Witness ==
    /\ resp.op = "PUT /notifications/read-all"
    /\ resp.status = 200
    /\ \E n \in DOMAIN pre.notifications :
           pre.notifications[n].user = resp.caller /\ pre.notifications[n].read
    /\ \A n \in DOMAIN pre.notifications :
           pre.notifications[n].user = resp.caller => pre.notifications[n].read
    /\ notifications = pre.notifications

\* C15: GET, PUT .../read and DELETE of an existing Notification succeed iff the
\* caller is its recipient and otherwise answer 403 leaving the collection as it
\* was; no notifications route changes or removes a Notification of another user.
C15_RecipientOnly ==
    resp.op \in NotificationOps =>
        /\ \A n \in DOMAIN pre.notifications :
               pre.notifications[n].user # resp.caller =>
                   Found(notifications, n) /\ notifications[n] = pre.notifications[n]
        /\ (resp.op \in NotificationIdOps /\ Found(pre.notifications, resp.id)) =>
               IF pre.notifications[resp.id].user = resp.caller
               THEN resp.status = 200
               ELSE /\ resp.status = 403
                    /\ resp.result = {}
                    /\ notifications = pre.notifications

\* a recipient deletes all of theirs while another user's Notification stays
C15_Witness ==
    /\ resp.op = "DELETE /notifications"
    /\ resp.status = 200
    /\ \E n \in DOMAIN pre.notifications : pre.notifications[n].user = resp.caller
    /\ \E n \in DOMAIN notifications : notifications[n].user # resp.caller
    /\ \A n \in DOMAIN notifications : notifications[n].user # resp.caller

\* C16: DELETE /projects/:id by the owner is answered 200 whatever boards, tasks
\* and comments the project has, removes the project, and leaves every Board,
\* Task, Comment and Notification in the store as it was.
C16_DeleteProjectKeepsChildren ==
    (/\ resp.op = "DELETE /projects/:id"
     /\ Found(pre.projects, resp.id)
     /\ pre.projects[resp.id].owner = resp.caller) =>
        /\ resp.status = 200
        /\ ~Found(projects, resp.id)
        /\ boards = pre.boards
        /\ tasks = pre.tasks
        /\ comments = pre.comments
        /\ notifications = pre.notifications

\* the deleted project had a board, a task on that board and a comment on the task
C16_Witness ==
    /\ resp.op = "DELETE /projects/:id"
    /\ resp.status = 200
    /\ ~Found(projects, resp.id)
    /\ \E b \in DOMAIN boards, t \in DOMAIN tasks, c \in DOMAIN comments :
           /\ boards[b].project = resp.id
           /\ tasks[t].project = resp.id
           /\ tasks[t].board = b
           /\ comments[c].task = t

\* C17: when two PUT /tasks/:id requests on the same task have both passed
\* authorization and both are done, in whatever order their awaits interleaved,
\* both were answered 200 and every field that both bodies supply holds the
\* value of the request whose save ran last.
BothSaved(q, r) ==
    /\ q # r
    /\ requests[q].pc = "done" /\ requests[r].pc = "done"
    /\ requests[q].id = requests[r].id
    /\ requests[q].status \notin {403, 404} /\ requests[r].status \notin {403, 404}
    /\ Len(saved) = 2 /\ saved[2] = r

C17_LastWriterWins ==
    \A q, r \in 1..MaxRequests :
        BothSaved(q, r) =>
            /\ requests[q].status = 200
            /\ requests[r].status = 200
            /\ \A f \in TaskFields :
                   (requests[q].body[f] # Undef /\ requests[r].body[f] # Undef) =>
                       tasks[requests[r].id][f] = requests[r].body[f]

\* C18: every task-updated or comment-added event published with a payload
\* naming project P was emitted, payload unchanged, to exactly the sockets that
\* were in P's room at that moment other than the publishing socket, whether or
\* not the publisher was in the room.
C18_RebroadcastToOthers ==
    \A k \in DOMAIN published :
        published[k].to = published[k].joined \ {published[k].socket}

\* C19: every stored task that has a board reference names a stored board whose
\* project is the task's project.
C19_TaskBoardInTaskProject ==
    \A t \in DOMAIN tasks :
        Truthy(tasks[t].board) =>
            /\ Found(boards, tasks[t].board)
            /\ boards[tasks[t].board].project = tasks[t].project

\* C20: no request changes the project of a board, the author or task of a
\* comment, the project or createdBy of a task, or the owner or members of a
\* project: each document a request found and left in the store holds them as
\* it found them.
RefsKept(before, after, fields) ==
    \A x \in DOMAIN before \cap DOMAIN after :
        \A f \in fields : after[x][f] = before[x][f]

C20_ReferencesImmutable ==
    /\ RefsKept(pre.boards, boards, {"project"})
    /\ RefsKept(pre.comments, comments, {"author", "task"})
    /\ RefsKept(pre.tasks, tasks, {"project", "createdBy"})
    /\ RefsKept(pre.projects, projects, {"owner", "members"})

\* the owner renamed the project: owner and members are as they were
C20_Witness ==
    /\ resp.op = "PUT /projects/:id"
    /\ resp.status = 200
    /\ pre.projects[resp.id].name = "a"
    /\ projects[resp.id].name = "b"
    /\ projects[resp.id].owner = resp.caller
    /\ projects[resp.id].members = pre.projects[resp.id].members

\* C21: a request that finds the board, task or comment it names but not the
\* project that owns it (or, for GET and DELETE /comments/:id, not the comment's
\* task) is answered 404, never 500.
C21Ops == {"GET /boards/:id", "PUT /boards/:id", "DELETE /boards/:id",
           "GET /tasks/board/:boardId", "GET /tasks/:id", "PUT /tasks/:id",
           "DELETE /tasks/:id", "POST /comments", "GET /comments/task/:taskId",
           "GET /comments/:id", "DELETE /comments/:id"}

C21_OrphansAnswered404 ==
    (resp.op \in C21Ops /\ ~NamedMissing /\ ~Found(pre.projects, ReqProjectId)) =>
        resp.status = 404

\* C22: GET /projects lists exactly the projects whose owner or member the
\* caller is, and GET /projects/:id of an existing project answers 200 with it
\* to its owner and members and 403 to every other caller.
C22_ProjectsReadByMembersOnly ==
    /\ resp.op = "GET /projects" =>
           resp.result = {p \in DOMAIN pre.projects : Listed(pre.projects[p], resp.caller)}
    /\ (resp.op = "GET /projects/:id" /\ Found(pre.projects, resp.id)) =>
           IF Listed(pre.projects[resp.id], resp.caller)
           THEN resp.status = 200 /\ resp.result = {resp.id}
           ELSE resp.status = 403 /\ resp.result = {}

\* C23: a request answered 403 or 404 leaves every collection as it found it.
C23_RefusedRequestsWriteNothing ==
    resp.status \in {403, 404} => StoreUnchanged

\* a caller who is not the recipient tries to delete a Notification
C23_Witness ==
    /\ resp.op = "DELETE /notifications/:id"
    /\ resp.status = 403
    /\ Found(pre.notifications, resp.id)
    /\ pre.notifications[resp.id].user # resp.caller
    /\ Found(notifications, resp.id)
    /\ StoreUnchanged

\* C24: an event is emitted to a socket only in the step that handles its
\* publication, and only if the socket was then connected and had joined the
\* room of the project the payload names; joining a room or disconnecting
\* brings a socket nothing that was published before.
EmittedAs(name) == IF name = "task-updated" THEN "task-update" ELSE "new-comment"

Delivered(s) == sockets'[s].received # sockets[s].received

C24_OnlyJoinedSocketsReceive ==
    [][\A s \in SocketIds :
          /\ Delivered(s) =>
                 /\ Len(published') = Len(published) + 1
                 /\ LET e == published'[Len(published')] IN
                    /\ sockets'[s].received =
                           Append(sockets[s].received,
                                  [event |-> EmittedAs(e.name), data |-> e.data])
                    /\ sockets[s].state = "open"
                    /\ Room(e.data.projectId) \in sockets[s].rooms
          /\ (sockets'[s].rooms # sockets[s].rooms \/ sockets'[s].state # sockets[s].state)
                 => ~Delivered(s)]_vars

\* one socket received the event; another joined the same room afterwards and
\* has received nothing
C24_Witness ==
    /\ published # <<>>
    /\ \E s, x \in SocketIds :
           /\ s # x
           /\ Len(sockets[s].received) = 1
           /\ sockets[s].received[1].data = published[1].data
           /\ sockets[x].state = "open"
           /\ Room(published[1].data.projectId) \in sockets[x].rooms
           /\ x \notin published[1].joined
           /\ sockets[x].received = <<>>

====
